---- MODULE Spec2Model ----
(***************************************************************************)
(* Endpoint / key rotation and failover engine.                            *)
(*                                                                         *)
(*   EnhancedAPIRotationManager  src/src/services/                         *)
(*                               enhanced_api_rotation_manager.py          *)
(*   OpenRouterAPIManager        src/src/services/                         *)
(*                               openrouter_api_manager.py                 *)
(*                                                                         *)
(* Time is counted in units of 30 seconds, the shortest duration either    *)
(* manager uses: timedelta(seconds=30) is 1, timedelta(minutes=1) is 2,    *)
(* timedelta(minutes=5) and the 300 second health check interval are 10,   *)
(* timedelta(minutes=10) is 20 and timedelta(hours=1) is 120.              *)
(* datetime.now() is the variable now; a handler reads one instant.        *)
(***************************************************************************)
EXTENDS Integers, Sequences, FiniteSets

VARIABLES
    now,                \* datetime.now()
    ticks,              \* how often the clock has advanced
    apis,               \* EnhancedAPIRotationManager.apis
    current_api_index,  \* EnhancedAPIRotationManager.current_api_index
    last_health_check,  \* EnhancedAPIRotationManager.last_health_check
    lastCall,           \* the latest call on the rotation manager and what it returned
    lock,               \* EnhancedAPIRotationManager.lock: the thread that holds it
    thread,             \* the position of each thread inside a call it runs step by step
    current_key_index,  \* OpenRouterAPIManager.current_key_index
    key_usage_stats,    \* OpenRouterAPIManager.key_usage_stats
    key_cooldowns,      \* OpenRouterAPIManager.key_cooldowns
    call                \* the chat_completion call: its position, locals and outcome

vars == <<now, ticks, apis, current_api_index, last_health_check, lastCall, lock, thread,
          current_key_index, key_usage_stats, key_cooldowns, call>>

concurrencyVars == <<lock, thread>>

enhancedVars == <<apis, current_api_index, last_health_check, lastCall, concurrencyVars>>

openrouterVars == <<current_key_index, key_usage_stats, key_cooldowns, call>>

(***************************************************************************)
(* Bounds of the model.                                                    *)
(***************************************************************************)
\* clock advances in one behaviour
MaxTicks == 1
\* cap of the request counter of an endpoint (the code has none)
MaxRequests == 3
\* chat_completion calls in one behaviour
MaxCalls == 2

(***************************************************************************)
(* EnhancedAPIRotationManager                                              *)
(***************************************************************************)
\* class APIStatus
ACTIVE == "active"
RATE_LIMITED == "rate_limited"
ERROR == "error"
OFFLINE == "offline"
APIStatus == {ACTIVE, RATE_LIMITED, ERROR, OFFLINE}

\* None, for a name and for a timestamp
NoName == "None"
NoTime == -1

\* timedelta(minutes=1), the rate limit window
RATE_LIMIT_WINDOW == 2
\* self.health_check_interval = 300 seconds
health_check_interval == 10
\* timedelta(minutes=10), how far back _initialize_health_monitoring dates the last check
INITIAL_CHECK_AGE == 20
\* mark_api_error: error_count > 3 sets ERROR
ERROR_MARK_THRESHOLD == 3
\* _is_api_available: ERROR and error_count > 5 is unavailable
ERROR_EXCLUDE_THRESHOLD == 5
\* max_requests_per_minute, scaled down from 100, 60 and 30
MaxRequestsPerMinute == 2

\* The error counter is followed up to the first value past both thresholds: every
\* comparison of the code reads a larger count as it reads this one.
MaxErrors == ERROR_EXCLUDE_THRESHOLD + 1

\* The clock advances to just past one rate limit window at a time.
TickStep == RATE_LIMIT_WINDOW + 1

Tick ==
    /\ ticks < MaxTicks
    /\ ticks' = ticks + 1
    /\ now' = now + TickStep
    /\ UNCHANGED <<enhancedVars, openrouterVars>>

\* The services of self.apis that the model gives a pool, and a name that is no key of it.
Services == {"qwen", "gemini"}
UnknownService == "unknown"

\* The endpoint names _load_api_configurations gives: f"{service}_{i}".
EndpointNames ==
    [qwen |-> <<"qwen_1", "qwen_2">>, gemini |-> <<>>]

\* @dataclass APIEndpoint, as constructed (last_used is written and never read)
APIEndpoint(n) ==
    [name |-> n, status |-> ACTIVE, error_count |-> 0, rate_limit_reset |-> NoTime,
     requests_made |-> 0, max_requests_per_minute |-> MaxRequestsPerMinute]

\* _needs_health_check
NeedsHealthCheck(m, service) ==
    now - m.last_health_check[service] > health_check_interval

\* _perform_health_check, one endpoint of the loop
HealthCheckOne(api, t) ==
    IF api.status = OFFLINE THEN api
    ELSE LET a1 == IF api.rate_limit_reset # NoTime /\ t > api.rate_limit_reset
                   THEN [api EXCEPT !.status = ACTIVE, !.rate_limit_reset = NoTime,
                                     !.requests_made = 0]
                   ELSE api
         IN  IF a1.requests_made >= a1.max_requests_per_minute
             THEN [a1 EXCEPT !.status = RATE_LIMITED,
                              !.rate_limit_reset = t + RATE_LIMIT_WINDOW]
             ELSE a1

\* _perform_health_check, the pool after the sweep
PerformHealthCheck(pool, t) ==
    [i \in 1..Len(pool) |-> HealthCheckOne(pool[i], t)]

\* An evaluation that never lifts a rate limit.
IsApiAvailable_NeverRecovers(api, t) ==
    IF api.status \in {OFFLINE, RATE_LIMITED} THEN FALSE
    ELSE ~(api.status = ERROR /\ api.error_count > ERROR_EXCLUDE_THRESHOLD)

\* An evaluation without the exclusion of endpoints in ERROR.
IsApiAvailable_NoErrorExclusion(api, t) ==
    IF api.status = OFFLINE THEN FALSE
    ELSE IF api.status = RATE_LIMITED
         THEN api.rate_limit_reset # NoTime /\ t > api.rate_limit_reset
         ELSE TRUE

\* _is_api_available, the verdict
IsApiAvailable(api, t) ==
    IF api.status = OFFLINE THEN FALSE
    ELSE IF api.status = RATE_LIMITED
         THEN api.rate_limit_reset # NoTime /\ t > api.rate_limit_reset
         ELSE IF api.status = ERROR /\ api.error_count > ERROR_EXCLUDE_THRESHOLD
              THEN FALSE
              ELSE TRUE

\* _is_api_available, the endpoint after the evaluation
AfterEvaluation(api, t) ==
    IF /\ api.status = RATE_LIMITED
       /\ api.rate_limit_reset # NoTime
       /\ t > api.rate_limit_reset
    THEN [api EXCEPT !.status = ACTIVE, !.requests_made = 0]
    ELSE api

\* A scan that starts one past the cursor.
ScanStart_OnePast(start) == start + 1

\* get_active_api, where the scan starts: start_index = self.current_api_index[service]
ScanStart(start) == start

\* get_active_api, the loop "for i in range(len(apis))": the index found, or -1
RECURSIVE ScanFrom(_, _, _, _)
ScanFrom(pool, start, i, t) ==
    IF i >= Len(pool) THEN -1
    ELSE LET index == (start + i) % Len(pool)
         IN  IF IsApiAvailable(pool[index + 1], t) THEN index
             ELSE ScanFrom(pool, start, i + 1, t)

\* get_active_api, the cursor after endpoint index was returned
CursorAfter(index) == index

\* The manager's pools, cursors and health check times, as get_active_api reads and
\* writes them.
RotationState == [apis |-> apis, current_api_index |-> current_api_index,
                  last_health_check |-> last_health_check]

\* get_active_api, the body under the lock: the manager after the call, the name of
\* the endpoint returned (None when there is none) and how many requests that
\* endpoint had served before
ActiveApiFrom(m, service, force_check) ==
    IF service \notin DOMAIN m.apis \/ m.apis[service] = <<>>
    THEN [m |-> m, result |-> NoName, served |-> 0]
    ELSE LET swept == force_check \/ NeedsHealthCheck(m, service)
             pool  == IF swept THEN PerformHealthCheck(m.apis[service], now)
                      ELSE m.apis[service]
             index == ScanFrom(pool, ScanStart(m.current_api_index[service]), 0, now)
             m1    == IF swept THEN [m EXCEPT !.last_health_check[service] = now] ELSE m
         IN  IF index >= 0
             THEN LET api == AfterEvaluation(pool[index + 1], now)
                  IN  [m |-> [m1 EXCEPT
                                !.apis[service] =
                                    [pool EXCEPT ![index + 1] =
                                        [api EXCEPT !.requests_made = @ + 1]],
                                !.current_api_index[service] = CursorAfter(index)],
                       result |-> api.name,
                       served |-> api.requests_made]
             ELSE [m |-> [m1 EXCEPT !.apis[service] = pool],
                   result |-> NoName, served |-> 0]

\* get_active_api
get_active_api(service, force_check) ==
    LET sel == ActiveApiFrom(RotationState, service, force_check)
    IN  /\ sel.served < MaxRequests
        /\ apis' = sel.m.apis
        /\ current_api_index' = sel.m.current_api_index
        /\ last_health_check' = sel.m.last_health_check
        /\ lastCall' = [op |-> "get_active_api", service |-> service,
                        force |-> force_check, result |-> sel.result]
        /\ UNCHANGED <<now, ticks, openrouterVars, concurrencyVars>>

\* get_fallback_model, fallback_order
fallback_order ==
    [qwen |-> <<"gemini", "groq">>, gemini |-> <<"qwen", "groq">>,
     groq |-> <<"qwen", "gemini">>]

\* A chain that is walked from its last alternate to its first.
FallbackChain_Reversed(primary_service) ==
    IF primary_service \in DOMAIN fallback_order
    THEN [k \in 1..Len(fallback_order[primary_service]) |->
            fallback_order[primary_service][Len(fallback_order[primary_service]) + 1 - k]]
    ELSE <<>>

\* get_fallback_model, "fallback_order.get(primary_service, [])"
FallbackChain(primary_service) ==
    IF primary_service \in DOMAIN fallback_order THEN fallback_order[primary_service]
    ELSE <<>>

\* get_fallback_model, the loop from alternate k of the chain on: the manager after
\* it, the alternate and the endpoint returned, the alternates get_active_api was
\* called for and the requests the endpoint had served before
RECURSIVE FallbackFrom(_, _, _, _)
FallbackFrom(m, chain, k, tried) ==
    IF k > Len(chain)
    THEN [m |-> m, fallback |-> NoName, result |-> NoName, tried |-> tried, served |-> 0]
    ELSE LET sel == ActiveApiFrom(m, chain[k], FALSE)
         IN  IF sel.result # NoName
             THEN [m |-> sel.m, fallback |-> chain[k], result |-> sel.result,
                   tried |-> Append(tried, chain[k]), served |-> sel.served]
             ELSE FallbackFrom(sel.m, chain, k + 1, Append(tried, chain[k]))

\* get_fallback_model
get_fallback_model(primary_service) ==
    LET fb == FallbackFrom(RotationState, FallbackChain(primary_service), 1, <<>>)
    IN  /\ fb.served < MaxRequests
        /\ apis' = fb.m.apis
        /\ current_api_index' = fb.m.current_api_index
        /\ last_health_check' = fb.m.last_health_check
        /\ lastCall' = [op |-> "get_fallback_model", service |-> primary_service,
                        force |-> FALSE, result |-> fb.result,
                        fallback |-> fb.fallback, tried |-> fb.tried]
        /\ UNCHANGED <<now, ticks, openrouterVars, concurrencyVars>>

\* mark_api_error, the endpoint named api_name
MarkError(api) ==
    LET a1 == [api EXCEPT !.error_count = @ + 1]
    IN  IF a1.error_count > ERROR_MARK_THRESHOLD THEN [a1 EXCEPT !.status = ERROR]
        ELSE a1

\* mark_api_error
mark_api_error(service, api_name) ==
    /\ \A i \in 1..Len(apis[service]) :
            apis[service][i].name = api_name => apis[service][i].error_count < MaxErrors
    /\ apis' = [apis EXCEPT ![service] =
            [i \in 1..Len(@) |-> IF @[i].name = api_name THEN MarkError(@[i]) ELSE @[i]]]
    /\ lastCall' = [op |-> "mark_api_error", service |-> service, force |-> FALSE,
                    result |-> NoName]
    /\ UNCHANGED <<now, ticks, current_api_index, last_health_check, openrouterVars,
                   concurrencyVars>>

\* mark_api_rate_limited, the endpoint named api_name
MarkRateLimited(api, reset_time) ==
    [api EXCEPT !.status = RATE_LIMITED,
                !.rate_limit_reset = IF reset_time # NoTime THEN reset_time
                                     ELSE now + RATE_LIMIT_WINDOW]

\* mark_api_rate_limited
mark_api_rate_limited(service, api_name, reset_time) ==
    /\ apis' = [apis EXCEPT ![service] =
            [i \in 1..Len(@) |->
                IF @[i].name = api_name THEN MarkRateLimited(@[i], reset_time) ELSE @[i]]]
    /\ lastCall' = [op |-> "mark_api_rate_limited", service |-> service, force |-> FALSE,
                    result |-> NoName]
    /\ UNCHANGED <<now, ticks, current_api_index, last_health_check, openrouterVars,
                   concurrencyVars>>

\* A reset that clears the counter and leaves the status alone.
ResetErrors_KeepStatus(api) ==
    [api EXCEPT !.error_count = 0]

\* reset_api_errors, one endpoint
ResetErrors(api) ==
    [api EXCEPT !.error_count = 0,
                !.status = IF api.status = ERROR THEN ACTIVE ELSE api.status]

\* reset_api_errors: services_to_reset is [service], or every service for None
reset_api_errors(service) ==
    /\ apis' = [s \in DOMAIN apis |->
            IF service = NoName \/ s = service
            THEN [i \in 1..Len(apis[s]) |-> ResetErrors(apis[s][i])]
            ELSE apis[s]]
    /\ lastCall' = [op |-> "reset_api_errors", service |-> service, force |-> FALSE,
                    result |-> NoName]
    /\ UNCHANGED <<now, ticks, current_api_index, last_health_check, openrouterVars,
                   concurrencyVars>>

\* get_api_status_report, the counters of service_status as they start
EmptyServiceStatus(pool) ==
    [total_apis |-> Len(pool), active |-> 0, rate_limited |-> 0, error |-> 0, offline |-> 0]

\* get_api_status_report, "service_status[api.status.value] += 1" from endpoint i on
RECURSIVE CountStatuses(_, _, _)
CountStatuses(pool, i, service_status) ==
    IF i > Len(pool) THEN service_status
    ELSE CountStatuses(pool, i + 1,
                       [service_status EXCEPT ![pool[i].status] = @ + 1])

\* A report that counts only the endpoints that are ACTIVE.
ServiceStatus_ActiveOnly(pool) ==
    [EmptyServiceStatus(pool) EXCEPT
        !.active = Cardinality({i \in 1..Len(pool) : pool[i].status = ACTIVE})]

\* get_api_status_report, the counts of one service
ServiceStatus(pool) == CountStatuses(pool, 1, EmptyServiceStatus(pool))

\* get_api_status_report, report['services'] (the counts; the per-endpoint entries
\* repeat fields of the endpoints)
ApiStatusReport(m) == [s \in DOMAIN m.apis |-> ServiceStatus(m.apis[s])]

\* get_api_status_report: no attribute of the manager or of an endpoint is assigned
get_api_status_report ==
    /\ lastCall' = [op |-> "get_api_status_report", service |-> NoName, force |-> FALSE,
                    result |-> NoName, report |-> ApiStatusReport(RotationState)]
    /\ UNCHANGED <<now, ticks, apis, current_api_index, last_health_check, openrouterVars,
                   concurrencyVars>>

\* An operator takes an endpoint out of service: api.status = APIStatus.OFFLINE.
\* No method of the manager assigns OFFLINE.
set_offline(service, api_name) ==
    /\ \E i \in 1..Len(apis[service]) :
            apis[service][i].name = api_name /\ apis[service][i].status # OFFLINE
    /\ apis' = [apis EXCEPT ![service] =
            [i \in 1..Len(@) |->
                IF @[i].name = api_name THEN [@[i] EXCEPT !.status = OFFLINE] ELSE @[i]]]
    /\ lastCall' = [op |-> "set_offline", service |-> service, force |-> FALSE,
                    result |-> NoName]
    /\ UNCHANGED <<now, ticks, current_api_index, last_health_check, openrouterVars,
                   concurrencyVars>>

(* Concurrent callers.  mark_api_error runs under "with self.lock"; its body is    *)
(* followed statement by statement, "api.error_count += 1" as the read and the   *)
(* write it compiles to.  reset_api_errors takes no lock (lines 341-351) and is   *)
(* followed assignment by assignment, so that its steps interleave with a thread *)
(* that holds the lock.                                                          *)

\* No thread is inside a call: mark and reset are the positions of the thread in
\* mark_api_error and of the thread in reset_api_errors, tmp is the value
\* "error_count += 1" has read, i the endpoint the loop of reset_api_errors is at.
NoThread == [mark |-> "idle", tmp |-> 0, reset |-> "idle", i |-> 0]

\* The position in the pool of the endpoint with a given name.
IndexOf(service, api_name) ==
    CHOOSE i \in 1..Len(apis[service]) : apis[service][i].name = api_name

\* mark_api_error, "with self.lock:" is entered
mark_api_error_acquire(service, api_name) ==
    /\ lock = "free"
    /\ thread.mark = "idle"
    /\ apis[service][IndexOf(service, api_name)].error_count < MaxErrors
    /\ lock' = "mark_api_error"
    /\ thread' = [thread EXCEPT !.mark = "load"]
    /\ UNCHANGED <<now, ticks, apis, current_api_index, last_health_check, lastCall,
                   openrouterVars>>

\* mark_api_error, "api.error_count += 1": the counter is read
mark_api_error_load(service, api_name) ==
    /\ thread.mark = "load"
    /\ thread' = [thread EXCEPT !.mark = "store",
                                !.tmp = apis[service][IndexOf(service, api_name)].error_count]
    /\ UNCHANGED <<now, ticks, apis, current_api_index, last_health_check, lastCall, lock,
                   openrouterVars>>

\* mark_api_error, "api.error_count += 1": the sum is written
mark_api_error_store(service, api_name) ==
    /\ thread.mark = "store"
    /\ apis' = [apis EXCEPT ![service][IndexOf(service, api_name)].error_count =
                                thread.tmp + 1]
    /\ thread' = [thread EXCEPT !.mark = "test", !.tmp = 0]
    /\ UNCHANGED <<now, ticks, current_api_index, last_health_check, lastCall, lock,
                   openrouterVars>>

\* mark_api_error, "if api.error_count > 3:"; the lock is released when the test fails
mark_api_error_test(service, api_name) ==
    /\ thread.mark = "test"
    /\ IF apis[service][IndexOf(service, api_name)].error_count > ERROR_MARK_THRESHOLD
       THEN /\ thread' = [thread EXCEPT !.mark = "set"]
            /\ UNCHANGED lock
       ELSE /\ thread' = [thread EXCEPT !.mark = "idle"]
            /\ lock' = "free"
    /\ UNCHANGED <<now, ticks, apis, current_api_index, last_health_check, lastCall,
                   openrouterVars>>

\* mark_api_error, "api.status = APIStatus.ERROR", and the lock is released
mark_api_error_set(service, api_name) ==
    /\ thread.mark = "set"
    /\ apis' = [apis EXCEPT ![service][IndexOf(service, api_name)].status = ERROR]
    /\ thread' = [thread EXCEPT !.mark = "idle"]
    /\ lock' = "free"
    /\ UNCHANGED <<now, ticks, current_api_index, last_health_check, lastCall,
                   openrouterVars>>

\* reset_api_errors, the loop moves to the next endpoint or the call returns
ResetAdvance(service) ==
    IF thread.i < Len(apis[service])
    THEN [thread EXCEPT !.reset = "zero", !.i = thread.i + 1]
    ELSE [thread EXCEPT !.reset = "idle", !.i = 0]

\* reset_api_errors is called: "for api in self.apis[svc]"
reset_api_errors_start(service) ==
    /\ thread.reset = "idle"
    /\ apis[service] # <<>>
    /\ thread' = [thread EXCEPT !.reset = "zero", !.i = 1]
    /\ UNCHANGED <<now, ticks, apis, current_api_index, last_health_check, lastCall, lock,
                   openrouterVars>>

\* reset_api_errors, "api.error_count = 0"
reset_api_errors_zero(service) ==
    /\ thread.reset = "zero"
    /\ apis' = [apis EXCEPT ![service][thread.i].error_count = 0]
    /\ thread' = [thread EXCEPT !.reset = "test"]
    /\ UNCHANGED <<now, ticks, current_api_index, last_health_check, lastCall, lock,
                   openrouterVars>>

\* reset_api_errors, "if api.status == APIStatus.ERROR:"
reset_api_errors_test(service) ==
    /\ thread.reset = "test"
    /\ thread' = IF apis[service][thread.i].status = ERROR
                 THEN [thread EXCEPT !.reset = "set"]
                 ELSE ResetAdvance(service)
    /\ UNCHANGED <<now, ticks, apis, current_api_index, last_health_check, lastCall, lock,
                   openrouterVars>>

\* reset_api_errors, "api.status = APIStatus.ACTIVE"
reset_api_errors_set(service) ==
    /\ thread.reset = "set"
    /\ apis' = [apis EXCEPT ![service][thread.i].status = ACTIVE]
    /\ thread' = ResetAdvance(service)
    /\ UNCHANGED <<now, ticks, current_api_index, last_health_check, lastCall, lock,
                   openrouterVars>>

\* __init__, _load_api_configurations, _initialize_health_monitoring, for the pools
\* the environment configures
InitPools(names) ==
    /\ apis = [s \in DOMAIN names |->
            [i \in 1..Len(names[s]) |-> APIEndpoint(names[s][i])]]
    /\ current_api_index = [s \in DOMAIN names |-> 0]
    /\ last_health_check = [s \in DOMAIN names |-> now - INITIAL_CHECK_AGE]
    /\ lock = "free"
    /\ thread = NoThread

\* No call has been made on the rotation manager yet.
InitCall == [op |-> "init", service |-> NoName, force |-> FALSE, result |-> NoName]

\* The process holds a rotation manager that it never calls.
NotCalled == [op |-> "none", service |-> NoName, force |-> FALSE, result |-> NoName]

InitEnhanced ==
    /\ InitPools(EndpointNames)
    /\ lastCall = InitCall


(***************************************************************************)
(* OpenRouterAPIManager                                                    *)
(***************************************************************************)
\* self.api_keys, as _load_api_keys reads them from the environment
api_keys == <<"key_a", "key_b">>
NumKeys == Len(api_keys)
KeySet == {api_keys[i] : i \in 1..NumKeys}

\* self.max_retries
max_retries == 3
\* timedelta(hours=1), the cooldown of a key without credits
COOLDOWN_CREDITS == 120
\* timedelta(minutes=5), the cooldown of a rate limited key
COOLDOWN_RATE_LIMIT == 10
\* timedelta(seconds=30), the cooldown after any other error
COOLDOWN_OTHER == 1

(* What the outbound request raises. str(error).lower() is modelled by the set   *)
(* of the substrings _handle_api_error searches for that the text contains.      *)
(*   E402       openai.APIStatusError, status_code 402, "Error code: 402 - ..."  *)
(*   E429       openai.APIStatusError, status_code 429, "Error code: 429 - ..."  *)
(*   E400Credit openai.APIStatusError, status_code 400, whose message mentions   *)
(*              credit ("... exceeds your credit limit")                         *)
(*   EConn      any other Exception (a connection error, a timeout)              *)
(*   EAllKeys   the Exception _get_next_available_key raises                     *)
(*   EUnbound   UnboundLocalError: api_key read before its first assignment      *)
RequestErrors == {"E402", "E429", "E400Credit", "EConn"}
NoError == "None"

\* isinstance(e, openai.APIStatusError)
IsAPIStatusError(e) == e \in {"E402", "E429", "E400Credit"}

\* e.status_code
StatusCode(e) ==
    CASE e = "E402" -> 402
      [] e = "E429" -> 429
      [] e = "E400Credit" -> 400
      [] OTHER -> 0

\* The searched substrings that str(error).lower() contains.
ErrorText(e) ==
    CASE e = "E402" -> {"402"}
      [] e = "E429" -> {"429"}
      [] e = "E400Credit" -> {"credit"}
      [] OTHER -> {}

\* _handle_api_error, the classification of error_str
Classify(e) ==
    IF ErrorText(e) \cap {"402", "credit", "payment"} # {} THEN "payment_required"
    ELSE IF ErrorText(e) \cap {"429", "rate limit"} # {} THEN "rate_limited"
         ELSE "other"

\* A classifier under which every cooldown lasts 30 seconds.
CooldownOf_AlwaysShort(class) == COOLDOWN_OTHER

\* _handle_api_error, the cooldown of each class of error
CooldownOf(class) ==
    CASE class = "payment_required" -> COOLDOWN_CREDITS
      [] class = "rate_limited" -> COOLDOWN_RATE_LIMIT
      [] OTHER -> COOLDOWN_OTHER

\* The manager's state, as the methods below read and write it.
ManagerState == [current_key_index |-> current_key_index,
                 key_usage_stats |-> key_usage_stats,
                 key_cooldowns |-> key_cooldowns]

\* A handler that flags the key and counts the error without timing the exclusion.
HandleApiError_NoCooldown(m, key, e) ==
    [m EXCEPT !.key_usage_stats[key] =
        [@ EXCEPT !.errors = @ + 1,
                  !.credits_exhausted = IF Classify(e) = "payment_required" THEN TRUE ELSE @,
                  !.rate_limited = IF Classify(e) = "rate_limited" THEN TRUE ELSE @]]

\* _handle_api_error
HandleApiError(m, key, e) ==
    LET class == Classify(e)
        stats == [m.key_usage_stats[key] EXCEPT
                    !.errors = @ + 1,
                    !.credits_exhausted = IF class = "payment_required" THEN TRUE ELSE @,
                    !.rate_limited = IF class = "rate_limited" THEN TRUE ELSE @]
    IN  [m EXCEPT !.key_usage_stats[key] = stats,
                  !.key_cooldowns[key] = now + CooldownOf(class)]

\* _rotate_to_next_key without the modulo: the cursor runs past the last key
RotateToNextKey_NoWrap(m) ==
    [m EXCEPT !.current_key_index = m.current_key_index + 1]

\* _rotate_to_next_key
RotateToNextKey(m) ==
    [m EXCEPT !.current_key_index = (m.current_key_index + 1) % NumKeys]

\* _notify_all_keys_exhausted: whether the critical signal is logged
NotifyAllKeysExhausted(m) ==
    \A k \in KeySet :
        ~(~m.key_usage_stats[k].credits_exhausted /\ m.key_cooldowns[k] = NoTime)

\* _get_next_available_key, "best_key = min(self.api_keys, key=errors)": the first
\* key of the list with the fewest errors
BestKey(m) ==
    LET i == CHOOSE i \in 1..NumKeys :
                /\ \A j \in 1..NumKeys :
                      m.key_usage_stats[api_keys[i]].errors
                          <= m.key_usage_stats[api_keys[j]].errors
                /\ \A j \in 1..(i - 1) :
                      m.key_usage_stats[api_keys[j]].errors
                          > m.key_usage_stats[api_keys[i]].errors
    IN  api_keys[i]

\* _get_next_available_key, after the while loop: the key with the fewest errors
AfterFullScan(m) ==
    [key |-> BestKey(m), raised |-> FALSE, critical |-> FALSE, m |-> m]

\* _get_next_available_key, the fallback "for k in self.api_keys" of the exhausted branch
FirstUncooledKey(m) ==
    LET ok == {i \in 1..NumKeys :
                  /\ m.key_cooldowns[api_keys[i]] = NoTime
                  /\ ~m.key_usage_stats[api_keys[i]].credits_exhausted}
    IN  IF ok = {} THEN NoName
        ELSE api_keys[CHOOSE i \in ok : \A j \in ok : i <= j]

\* _get_next_available_key, the while loop from "attempts" on: the key returned or
\* the exception raised, and the manager's state after it
RECURSIVE NextAvailableKeyFrom(_, _, _)
NextAvailableKeyFrom(m, attempts, initial_index) ==
    IF attempts >= NumKeys THEN AfterFullScan(m)
    ELSE
      LET key == api_keys[m.current_key_index + 1]
      IN  IF m.key_cooldowns[key] # NoTime /\ now < m.key_cooldowns[key]
          THEN NextAvailableKeyFrom(RotateToNextKey(m), attempts + 1, initial_index)
          ELSE
            LET m1 == IF m.key_cooldowns[key] # NoTime
                      THEN [m EXCEPT !.key_cooldowns[key] = NoTime,
                                     !.key_usage_stats[key].credits_exhausted = FALSE,
                                     !.key_usage_stats[key].rate_limited = FALSE]
                      ELSE m
            IN  IF /\ ~m1.key_usage_stats[key].credits_exhausted
                   /\ ~m1.key_usage_stats[key].rate_limited
                THEN [key |-> key, raised |-> FALSE, critical |-> FALSE, m |-> m1]
                ELSE
                  LET m2 == RotateToNextKey(m1)
                  IN  IF attempts + 1 = NumKeys /\ m2.current_key_index = initial_index
                      THEN IF FirstUncooledKey(m2) # NoName
                           THEN [key |-> FirstUncooledKey(m2), raised |-> FALSE,
                                 critical |-> NotifyAllKeysExhausted(m2), m |-> m2]
                           ELSE [key |-> NoName, raised |-> TRUE,
                                 critical |-> NotifyAllKeysExhausted(m2), m |-> m2]
                      ELSE NextAvailableKeyFrom(m2, attempts + 1, initial_index)

\* _get_next_available_key
GetNextAvailableKey(m) == NextAvailableKeyFrom(m, 0, m.current_key_index)

\* A loop that sleeps after every failed attempt.
BackoffAfter_Always(attempt) == TRUE

\* chat_completion, "if attempt < self.max_retries - 1": whether a backoff delay
\* follows the failure of this attempt
BackoffAfter(attempt) == attempt < max_retries - 1

\* chat_completion, "if e.status_code == 402": whether the failure aborts the call
AbortsCall(e) == IsAPIStatusError(e) /\ StatusCode(e) = 402

\* The call record of a chat_completion that has not started.
NoCall ==
    [pc |-> "idle", n |-> 0, attempt |-> 0, api_key |-> NoName, last_error |-> NoError,
     outbound |-> 0, sleeps |-> 0, critical |-> FALSE, result |-> NoName,
     raised |-> NoError]

\* chat_completion is called
StartChatCompletion ==
    /\ call.pc \in {"idle", "done"}
    /\ call.n < MaxCalls
    /\ call' = [NoCall EXCEPT !.pc = "select", !.n = call.n + 1]
    /\ UNCHANGED <<now, ticks, enhancedVars, current_key_index, key_usage_stats,
                   key_cooldowns>>

\* chat_completion, the rest of an attempt after exception e was handled
AfterFailure(c, e) ==
    IF AbortsCall(e)
    THEN [c EXCEPT !.pc = "done", !.last_error = e, !.result = "raise", !.raised = e]
    ELSE LET c1 == [c EXCEPT !.last_error = e,
                             !.sleeps = IF BackoffAfter(c.attempt) THEN @ + 1 ELSE @,
                             !.attempt = @ + 1]
         IN  IF c1.attempt < max_retries THEN [c1 EXCEPT !.pc = "select"]
             ELSE [c1 EXCEPT !.pc = "done", !.result = "raise", !.raised = e]

\* chat_completion, an attempt up to the outbound request: the key is selected and
\* its statistics are updated, or the selection raises and the handler runs
SelectKey ==
    /\ call.pc = "select"
    /\ LET sel == GetNextAvailableKey(ManagerState)
       IN  IF ~sel.raised
           THEN /\ current_key_index' = sel.m.current_key_index
                /\ key_cooldowns' = sel.m.key_cooldowns
                /\ key_usage_stats' =
                       [sel.m.key_usage_stats EXCEPT ![sel.key].requests = @ + 1]
                /\ call' = [call EXCEPT !.pc = "request", !.api_key = sel.key,
                                        !.critical = @ \/ sel.critical]
           ELSE IF call.api_key = NoName
                THEN \* "except Exception" reads api_key, which is unbound
                     /\ current_key_index' = sel.m.current_key_index
                     /\ key_cooldowns' = sel.m.key_cooldowns
                     /\ key_usage_stats' = sel.m.key_usage_stats
                     /\ call' = [call EXCEPT !.pc = "done", !.last_error = "EAllKeys",
                                             !.critical = @ \/ sel.critical,
                                             !.result = "raise", !.raised = "EUnbound"]
                ELSE \* the handler charges the key of the previous attempt
                     LET m == HandleApiError(sel.m, call.api_key, "EAllKeys")
                     IN  /\ current_key_index' = m.current_key_index
                         /\ key_cooldowns' = m.key_cooldowns
                         /\ key_usage_stats' = m.key_usage_stats
                         /\ call' = AfterFailure(
                                [call EXCEPT !.critical = @ \/ sel.critical], "EAllKeys")
    /\ UNCHANGED <<now, ticks, enhancedVars>>

\* chat_completion, client.chat.completions.create returns
RequestSucceeds ==
    /\ call.pc = "request"
    /\ current_key_index' = RotateToNextKey(ManagerState).current_key_index
    /\ call' = [call EXCEPT !.pc = "done", !.outbound = @ + 1, !.result = "response"]
    /\ UNCHANGED <<now, ticks, enhancedVars, key_usage_stats, key_cooldowns>>

\* chat_completion, client.chat.completions.create raises e
RequestFails ==
    /\ call.pc = "request"
    /\ \E e \in RequestErrors :
        LET m == HandleApiError(ManagerState, call.api_key, e)
        IN  /\ key_usage_stats' = m.key_usage_stats
            /\ key_cooldowns' = m.key_cooldowns
            /\ call' = AfterFailure([call EXCEPT !.outbound = @ + 1], e)
    /\ UNCHANGED <<now, ticks, enhancedVars, current_key_index>>

\* reset_key_status
reset_key_status(key_index) ==
    /\ call.pc \in {"idle", "done"}
    /\ IF key_index = NoTime
       THEN /\ key_usage_stats' = [k \in KeySet |->
                    [key_usage_stats[k] EXCEPT !.credits_exhausted = FALSE,
                                               !.rate_limited = FALSE]]
            /\ key_cooldowns' = [k \in KeySet |-> NoTime]
       ELSE IF 0 <= key_index /\ key_index < NumKeys
            THEN LET key == api_keys[key_index + 1]
                 IN  /\ key_usage_stats' =
                            [key_usage_stats EXCEPT ![key].credits_exhausted = FALSE,
                                                    ![key].rate_limited = FALSE]
                     /\ key_cooldowns' = [key_cooldowns EXCEPT ![key] = NoTime]
            ELSE UNCHANGED <<key_usage_stats, key_cooldowns>>
    /\ UNCHANGED <<now, ticks, enhancedVars, current_key_index, call>>

ResetKeyStatus == \E key_index \in {NoTime} \cup (0..NumKeys) : reset_key_status(key_index)

\* get_api_status, key_status of one key
KeyStatus(m, key) ==
    [credits_exhausted |-> m.key_usage_stats[key].credits_exhausted,
     rate_limited |-> m.key_usage_stats[key].rate_limited,
     in_cooldown |-> m.key_cooldowns[key] # NoTime,
     available |-> /\ ~m.key_usage_stats[key].credits_exhausted
                   /\ ~m.key_usage_stats[key].rate_limited
                   /\ m.key_cooldowns[key] = NoTime]

\* get_api_status, the status returned (without the sums of requests and errors)
ApiStatus(m) ==
    LET keys_status == [i \in 1..NumKeys |-> KeyStatus(m, api_keys[i])]
        available_keys == Cardinality({i \in 1..NumKeys : keys_status[i].available})
    IN  [total_keys |-> NumKeys,
         current_key_index |-> m.current_key_index,
         keys_status |-> keys_status,
         summary |-> [available_keys |-> available_keys,
                      health_status |-> IF available_keys > 0 THEN "healthy"
                                        ELSE "degraded"]]

\* A snapshot that drops the cooldowns that have expired.
AfterGetApiStatus_DropsExpired(m) ==
    [m EXCEPT !.key_cooldowns =
        [k \in KeySet |-> IF @[k] # NoTime /\ now >= @[k] THEN NoTime ELSE @[k]]]

\* get_api_status, the manager after the call: no attribute is assigned
AfterGetApiStatus(m) == m

\* get_api_status, called between two chat_completion calls
get_api_status ==
    /\ call.pc \in {"idle", "done"}
    /\ LET m == AfterGetApiStatus(ManagerState)
       IN  /\ current_key_index' = m.current_key_index
           /\ key_usage_stats' = m.key_usage_stats
           /\ key_cooldowns' = m.key_cooldowns
    /\ UNCHANGED <<now, ticks, enhancedVars, call>>

\* The clock advances by 5 minutes (the shorter cooldowns end) or by an hour (all end).
TickCooldown ==
    /\ ticks < MaxTicks
    /\ ticks' = ticks + 1
    /\ \E d \in {COOLDOWN_RATE_LIMIT, COOLDOWN_CREDITS} : now' = now + d
    /\ UNCHANGED <<enhancedVars, openrouterVars>>

\* __init__ (last_used is written and never read)
InitOpenRouter ==
    /\ current_key_index = 0
    /\ key_usage_stats = [k \in KeySet |->
            [requests |-> 0, errors |-> 0, credits_exhausted |-> FALSE,
             rate_limited |-> FALSE]]
    /\ key_cooldowns = [k \in KeySet |-> NoTime]
    /\ call = NoCall

Init ==
    /\ now = 0
    /\ ticks = 0
    /\ InitEnhanced
    /\ InitOpenRouter

\* The names a caller passes: every endpoint of the service.
NamesOf(service) == {apis[service][i].name : i \in 1..Len(apis[service])}

\* The endpoints whose provider reports errors in the behaviours explored.
FailingEndpoints == {"qwen_1"}

\* The endpoints whose provider reports a rate limit, and the endpoints an
\* operator retires, in the behaviours explored.  The other endpoint is still
\* rate limited by the sweep when its counter reaches its limit.
ThrottledEndpoints == {"qwen_2"}
RetiredEndpoints == {"qwen_2"}

GetActiveApi ==
    \E service \in Services \cup {UnknownService}, force_check \in BOOLEAN :
        get_active_api(service, force_check)

MarkApiError ==
    \E service \in Services : \E api_name \in NamesOf(service) \cap FailingEndpoints :
        mark_api_error(service, api_name)

MarkApiRateLimited ==
    \E service \in Services : \E api_name \in NamesOf(service) \cap ThrottledEndpoints :
        \E reset_time \in {NoTime} :
            mark_api_rate_limited(service, api_name, reset_time)

ResetApiErrors ==
    \E service \in Services \cup {NoName} : reset_api_errors(service)

SetOffline ==
    \E service \in Services : \E api_name \in NamesOf(service) \cap RetiredEndpoints :
        set_offline(service, api_name)

Next ==
    \/ Tick
    \/ GetActiveApi
    \/ MarkApiError
    \/ MarkApiRateLimited
    \/ ResetApiErrors
    \/ SetOffline
    \/ get_api_status_report

Spec == Init /\ [][Next]_vars

NextOpenRouter ==
    \/ TickCooldown
    \/ StartChatCompletion
    \/ SelectKey
    \/ RequestSucceeds
    \/ RequestFails
    \/ ResetKeyStatus
    \/ get_api_status

SpecOpenRouter == Init /\ [][NextOpenRouter]_vars

\* A deployment with keys for two of the three chat models: the pools behind
\* get_fallback_model.  groq is a service of self.apis with no endpoint.
FallbackServices == {"qwen", "gemini", "groq"}

FallbackEndpointNames ==
    [qwen |-> <<"qwen_1">>, gemini |-> <<"gemini_1">>, groq |-> <<>>]

InitFallback ==
    /\ now = 0
    /\ ticks = 0
    /\ InitPools(FallbackEndpointNames)
    /\ lastCall = InitCall
    /\ InitOpenRouter

GetFallbackModel ==
    \E primary_service \in FallbackServices \cup {UnknownService} :
        get_fallback_model(primary_service)

\* A provider reports a rate limit on any endpoint of any pool.
MarkAnyApiRateLimited ==
    \E service \in DOMAIN apis : \E api_name \in NamesOf(service) :
        mark_api_rate_limited(service, api_name, NoTime)

NextFallback ==
    \/ Tick
    \/ GetFallbackModel
    \/ MarkAnyApiRateLimited

SpecFallback == InitFallback /\ [][NextFallback]_vars

\* A process that holds both managers and drives one of them: the two global
\* instances share no state, so what one does is independent of the other.
InitManagers ==
    /\ now = 0
    /\ ticks = 0
    /\ InitPools(EndpointNames)
    /\ lastCall \in {InitCall, NotCalled}
    /\ InitOpenRouter

NextManagers ==
    \/ (lastCall.op # "none" /\ Next)
    \/ (lastCall.op = "none" /\ NextOpenRouter)

SpecManagers == InitManagers /\ [][NextManagers]_vars

\* Two threads on one EnhancedAPIRotationManager: one reports errors of an endpoint,
\* the other resets the error counters of its service.  A call that runs as one step
\* waits for the lock.
MarkApiErrorThread ==
    \E api_name \in NamesOf("qwen") \cap FailingEndpoints :
        \/ mark_api_error_acquire("qwen", api_name)
        \/ mark_api_error_load("qwen", api_name)
        \/ mark_api_error_store("qwen", api_name)
        \/ mark_api_error_test("qwen", api_name)
        \/ mark_api_error_set("qwen", api_name)

ResetApiErrorsThread ==
    \/ reset_api_errors_start("qwen")
    \/ reset_api_errors_zero("qwen")
    \/ reset_api_errors_test("qwen")
    \/ reset_api_errors_set("qwen")

NextConcurrent ==
    \/ MarkApiErrorThread
    \/ ResetApiErrorsThread
    \/ (lock = "free" /\ MarkApiRateLimited)
    \/ (lock = "free" /\ GetActiveApi)

SpecConcurrent == Init /\ [][NextConcurrent]_vars

(***************************************************************************)
(* Properties of EnhancedAPIRotationManager                                *)
(***************************************************************************)
\* A step that is a call of get_active_api.
IsGetStep == lastCall'.op = "get_active_api" /\ now' = now

\* The endpoint of a service with a given name.
EndpointNamed(pools, service, n) ==
    LET i == CHOOSE i \in 1..Len(pools[service]) : pools[service][i].name = n
    IN  pools[service][i]

\* How many endpoints of a pool the health evaluation finds usable.
UsableCount(pool, t) == Cardinality({i \in 1..Len(pool) : IsApiAvailable(pool[i], t)})

\* C1: two consecutive get_active_api calls on one service that both return an
\* endpoint, with no other call in between, return different endpoints unless
\* exactly one endpoint of the pool is usable.
C1_NoConsecutiveRepeat ==
    [][ ( /\ IsGetStep
          /\ lastCall.op = "get_active_api"
          /\ lastCall.service = lastCall'.service
          /\ lastCall.result # NoName
          /\ lastCall'.result = lastCall.result )
        => UsableCount(apis'[lastCall'.service], now') = 1 ]_vars

C6_OfflineIsFinal ==
    [][ /\ \A s \in Services : \A i \in 1..Len(apis[s]) :
              apis[s][i].status = OFFLINE => apis'[s][i].status = OFFLINE
        /\ (IsGetStep /\ lastCall'.result # NoName) =>
              EndpointNamed(apis, lastCall'.service, lastCall'.result).status # OFFLINE
      ]_vars

\* C7: the request counter of an endpoint never exceeds its max_requests_per_minute:
\* an endpoint whose counter has reached the cap is rate limited, not returned.
C7_RequestsWithinCap ==
    \A s \in Services : \A i \in 1..Len(apis[s]) :
        apis[s][i].requests_made <= apis[s][i].max_requests_per_minute

\* C8: get_active_api on a non-empty pool with cursor c returns the first endpoint
\* in the cyclic order c, c+1, ..., c+n-1 (mod n) that the health evaluation finds
\* usable and sets the cursor to its index; it returns None exactly when none is
\* usable; on an empty or unknown service it returns None and changes nothing.
C8_CyclicFirstUsable ==
    [][ IsGetStep =>
        LET service == lastCall'.service
        IN  IF service \notin Services \/ apis[service] = <<>>
            THEN /\ lastCall'.result = NoName
                 /\ UNCHANGED <<apis, current_api_index, last_health_check>>
            ELSE LET n == Len(apis[service])
                     c == current_api_index[service]
                     swept == lastCall'.force
                              \/ now - last_health_check[service] > health_check_interval
                     pool == IF swept THEN PerformHealthCheck(apis[service], now)
                             ELSE apis[service]
                     usable == {k \in 0..(n - 1) :
                                    IsApiAvailable(pool[((c + k) % n) + 1], now)}
                 IN  IF usable = {}
                     THEN /\ lastCall'.result = NoName
                          /\ UNCHANGED current_api_index
                     ELSE \E k \in usable :
                            /\ \A j \in usable : k <= j
                            /\ lastCall'.result = pool[((c + k) % n) + 1].name
                            /\ current_api_index'[service] = (c + k) % n
      ]_vars

\* C8 witness: a selection skipped the unusable qwen_1 and returned qwen_2, leaving
\* the cursor on it.
C8_Witness ==
    /\ lastCall.op = "get_active_api"
    /\ lastCall.result = "qwen_2"
    /\ current_api_index["qwen"] = 1
    /\ ~IsApiAvailable(apis["qwen"][1], now)

\* An endpoint that is RATE_LIMITED with its rate_limit_reset in the past.
RateLimitExpired(api, t) ==
    api.status = RATE_LIMITED /\ api.rate_limit_reset # NoTime /\ t > api.rate_limit_reset

\* C11: an endpoint that is RATE_LIMITED with rate_limit_reset in the past is, on
\* the next health evaluation (every endpoint of the pool in a sweep, the endpoint
\* the scan accepts otherwise), set to ACTIVE with its rate_limit_reset cleared and
\* its request counter reset to 0 (1 once the selection that returns it is counted).
C11_ExpiredRateLimitRecovers ==
    [][ (IsGetStep /\ lastCall'.service \in Services) =>
        LET service == lastCall'.service
            swept == lastCall'.force
                     \/ now - last_health_check[service] > health_check_interval
        IN  \A i \in 1..Len(apis[service]) :
                LET returned == apis[service][i].name = lastCall'.result
                IN  (RateLimitExpired(apis[service][i], now) /\ (swept \/ returned)) =>
                        /\ apis'[service][i].status = ACTIVE
                        /\ apis'[service][i].rate_limit_reset = NoTime
                        /\ apis'[service][i].requests_made = IF returned THEN 1 ELSE 0
      ]_vars

\* C12: the rate_limit_reset of an endpoint is set if and only if its status is
\* RATE_LIMITED.  Endpoints an operator has retired are left out: the manager
\* itself never assigns OFFLINE.
C12_ResetSetIffRateLimited ==
    \A s \in Services : \A i \in 1..Len(apis[s]) :
        apis[s][i].status # OFFLINE =>
            (apis[s][i].rate_limit_reset # NoTime <=> apis[s][i].status = RATE_LIMITED)

\* What every sequence of whole calls keeps: only mark_api_error assigns ERROR, with
\* a count past its threshold, and only reset_api_errors lowers the count, taking
\* the endpoint out of ERROR.
ErrorImpliesCount ==
    \A s \in Services : \A i \in 1..Len(apis[s]) :
        apis[s][i].status = ERROR => apis[s][i].error_count > ERROR_MARK_THRESHOLD

\* C13: the calls that mutate endpoint health are atomic with respect to each
\* other: when no thread is inside a call, the state is one that whole calls in
\* some order reach, so no endpoint is ERROR with a count at or below the threshold
\* (ERROR with error_count 0 right after a reset).
C13_CallsAreAtomic ==
    (thread.mark = "idle" /\ thread.reset = "idle") => ErrorImpliesCount

\* A step that is a call of reset_api_errors.
IsResetStep == lastCall'.op = "reset_api_errors" /\ now' = now

\* C14: reset_api_errors(service) sets error_count to 0 for every endpoint of the
\* service (of every service when none is given) and turns every ERROR endpoint
\* into an ACTIVE one that the health evaluation finds usable; the status of the
\* other endpoints, the request counters, the rate limit expiries, the cursors and
\* the endpoints of the other services stay as they were.
C14_ResetApiErrorsFrame ==
    [][ IsResetStep =>
        /\ \A s \in Services : \A i \in 1..Len(apis[s]) :
              IF lastCall'.service \in {NoName, s}
              THEN /\ apis'[s][i].error_count = 0
                   /\ apis[s][i].status = ERROR =>
                         /\ apis'[s][i].status = ACTIVE
                         /\ IsApiAvailable(apis'[s][i], now')
                   /\ apis[s][i].status # ERROR => apis'[s][i].status = apis[s][i].status
                   /\ apis'[s][i] = [apis[s][i] EXCEPT !.error_count = apis'[s][i].error_count,
                                                       !.status = apis'[s][i].status]
              ELSE apis'[s][i] = apis[s][i]
        /\ \A s \in Services : Len(apis'[s]) = Len(apis[s])
        /\ UNCHANGED <<current_api_index, last_health_check>>
      ]_vars

\* C14 witness: reset_api_errors("qwen") has run on a pool whose cursor is on the
\* second endpoint, whose first endpoint has served requests and is ACTIVE with no
\* errors, and whose second endpoint is still RATE_LIMITED or OFFLINE.
C14_Witness ==
    /\ lastCall.op = "reset_api_errors"
    /\ lastCall.service = "qwen"
    /\ current_api_index["qwen"] = 1
    /\ apis["qwen"][1].status = ACTIVE
    /\ apis["qwen"][1].error_count = 0
    /\ apis["qwen"][1].requests_made > 0
    /\ apis["qwen"][2].status \in {RATE_LIMITED, OFFLINE}
    /\ apis["qwen"][2].requests_made > 0

\* A step that is a call of get_fallback_model.
IsFallbackStep == lastCall'.op = "get_fallback_model" /\ now' = now

\* Whether get_active_api(service) finds an endpoint in the pool as it is, and which
\* one: the offsets from the cursor at which the health evaluation, after the sweep
\* when one is due, finds a usable endpoint.
PoolAfterDueSweep(service) ==
    IF now - last_health_check[service] > health_check_interval
    THEN PerformHealthCheck(apis[service], now)
    ELSE apis[service]

UsableOffsets(service) ==
    IF service \notin DOMAIN apis THEN {}
    ELSE LET n == Len(apis[service])
         IN  {k \in 0..(n - 1) :
                IsApiAvailable(
                    PoolAfterDueSweep(service)[((current_api_index[service] + k) % n) + 1],
                    now)}

\* C15: get_fallback_model(primary) calls get_active_api for the alternates of
\* primary's chain in the configured order, each at most once and never for primary
\* itself, stops at the first alternate whose pool yields a usable endpoint and
\* returns it with that endpoint; it returns (None, None) when no alternate yields
\* one or primary has no chain; the pool, cursor and health check time of primary
\* stay as they were.
C15_FallbackInOrder ==
    [][ IsFallbackStep =>
        LET primary == lastCall'.service
            chain == IF primary \in {"qwen", "gemini", "groq"}
                     THEN fallback_order[primary] ELSE <<>>
            tried == lastCall'.tried
            good == {k \in 1..Len(chain) : UsableOffsets(chain[k]) # {}}
        IN  /\ Len(tried) <= Len(chain)
            /\ \A k \in 1..Len(tried) : tried[k] = chain[k] /\ tried[k] # primary
            /\ \A j, k \in 1..Len(tried) : tried[j] = tried[k] => j = k
            /\ IF good = {}
               THEN /\ lastCall'.fallback = NoName
                    /\ lastCall'.result = NoName
                    /\ Len(tried) = Len(chain)
               ELSE \E k \in good :
                      /\ \A j \in good : k <= j
                      /\ Len(tried) = k
                      /\ lastCall'.fallback = chain[k]
                      /\ \E o \in UsableOffsets(chain[k]) :
                            /\ \A q \in UsableOffsets(chain[k]) : o <= q
                            /\ lastCall'.result =
                                  apis[chain[k]][((current_api_index[chain[k]] + o)
                                                    % Len(apis[chain[k]])) + 1].name
            /\ primary \in DOMAIN apis =>
                  /\ apis'[primary] = apis[primary]
                  /\ current_api_index'[primary] = current_api_index[primary]
                  /\ last_health_check'[primary] = last_health_check[primary]
      ]_vars

\* C15 witness: get_fallback_model("groq") found no usable endpoint in the qwen pool,
\* went on to gemini and returned its endpoint.
C15_Witness ==
    /\ lastCall.op = "get_fallback_model"
    /\ lastCall.service = "groq"
    /\ lastCall.tried = <<"qwen", "gemini">>
    /\ lastCall.fallback = "gemini"
    /\ lastCall.result = "gemini_1"

\* C17: in the report get_api_status_report returns, the counts of every service
\* add up: active + rate_limited + error + offline = total_apis.
C17_ReportCountsAddUp ==
    lastCall.op = "get_api_status_report" =>
        \A s \in DOMAIN lastCall.report :
            LET r == lastCall.report[s]
            IN  /\ r.active + r.rate_limited + r.error + r.offline = r.total_apis
                /\ r.total_apis = Len(apis[s])

\* C17 witness: a report of a pool with one endpoint in ERROR and one that is
\* RATE_LIMITED or OFFLINE.
C17_Witness ==
    /\ lastCall.op = "get_api_status_report"
    /\ lastCall.report["qwen"].error = 1
    /\ lastCall.report["qwen"].rate_limited + lastCall.report["qwen"].offline = 1
    /\ lastCall.report["qwen"].total_apis = 2

\* What one evaluation by _is_api_available leaves of an endpoint and what it answers.
Evaluated(api, t) ==
    [status |-> AfterEvaluation(api, t).status,
     requests_made |-> AfterEvaluation(api, t).requests_made,
     rate_limit_reset |-> AfterEvaluation(api, t).rate_limit_reset,
     usable |-> IsApiAvailable(api, t)]

\* C21: the sweep and the lazy evaluation apply the same rules: for every endpoint
\* and time, _perform_health_check followed by _is_api_available gives the same
\* status, request counter, rate_limit_reset and verdict as _is_api_available alone.
C21_SweepAgreesWithEvaluation ==
    \A s \in DOMAIN apis : \A i \in 1..Len(apis[s]) :
        Evaluated(HealthCheckOne(apis[s][i], now), now) = Evaluated(apis[s][i], now)

\* How many endpoints the scan of a pool of n endpoints that starts at cursor start
\* evaluates before the endpoint at index.
ScanOffset(index, start, n) == (index - start + n) % n

\* C24: an endpoint that is RATE_LIMITED has a rate_limit_reset, and it is never
\* stuck: once the time is past its rate_limit_reset, the get_active_api scan that
\* reaches it finds it usable, so the call returns it or an endpoint that the scan
\* evaluates before it, and the endpoint returned is ACTIVE.
C24_RateLimitedNeverStuck ==
    /\ [](\A s \in DOMAIN apis : \A i \in 1..Len(apis[s]) :
            apis[s][i].status = RATE_LIMITED => apis[s][i].rate_limit_reset # NoTime)
    /\ [][ (IsGetStep /\ lastCall'.service \in Services) =>
            LET service == lastCall'.service
                n == Len(apis[service])
                start == current_api_index[service]
            IN  \A i \in 1..n :
                    RateLimitExpired(apis[service][i], now) =>
                        /\ lastCall'.result # NoName
                        /\ ScanOffset(current_api_index'[service], start, n)
                               <= ScanOffset(i - 1, start, n)
                        /\ lastCall'.result = apis[service][i].name =>
                               apis'[service][i].status = ACTIVE
          ]_vars

\* C24 witness: get_active_api, called without a sweep and with the cursor on the
\* RATE_LIMITED qwen_2 after the rate limit had run out, has returned qwen_2 and
\* left it ACTIVE.
C24_Witness ==
    /\ lastCall.op = "get_active_api"
    /\ ~lastCall.force
    /\ lastCall.result = "qwen_2"
    /\ apis["qwen"][1].status = ACTIVE
    /\ apis["qwen"][2].status = ACTIVE
    /\ apis["qwen"][2].requests_made = 1
    /\ apis["qwen"][2].rate_limit_reset # NoTime
    /\ now > apis["qwen"][2].rate_limit_reset

(***************************************************************************)
(* Properties of OpenRouterAPIManager                                      *)
(***************************************************************************)
\* A key whose entry in key_cooldowns has not expired.
KeyInCooldown(k) == key_cooldowns[k] # NoTime /\ now < key_cooldowns[k]

\* A key the selection has to pass over: cooling down, or flagged with no cooldown
\* whose expiry would clear the flag.
KeyUnavailable(k) ==
    \/ KeyInCooldown(k)
    \/ /\ key_cooldowns[k] = NoTime
       /\ key_usage_stats[k].credits_exhausted \/ key_usage_stats[k].rate_limited

\* A step in which the outbound request of the current attempt failed.
RequestFailed ==
    /\ call.pc = "request"
    /\ call'.outbound = call.outbound + 1
    /\ call'.result # "response"

\* C2: the key chat_completion sends a request with never has an unexpired entry
\* in key_cooldowns.
C2_NoRequestWithCoolingKey ==
    call.pc = "request" => ~KeyInCooldown(call.api_key)

\* C3: when the selection of an attempt finds every key unavailable it raises the
\* exhausted condition and the attempt sends no request.
C3_ExhaustedSelectionRaises ==
    [][ ( /\ call.pc = "select"
          /\ call' # call
          /\ \A k \in KeySet : KeyUnavailable(k) )
        => (call'.pc # "request" /\ call'.last_error = "EAllKeys") ]_vars

\* C4: a failure that _handle_api_error classifies as payment required ends the
\* call at once with that error raised; a failure of any other class is retried
\* while attempts remain.
C4_PaymentRequiredAborts ==
    [][ RequestFailed =>
            IF Classify(call'.last_error) = "payment_required"
            THEN call'.pc = "done" /\ call'.raised = call'.last_error
            ELSE call.attempt < max_retries - 1 => call'.pc = "select" ]_vars

\* How far a call in flight is from its end.
Remaining(c) ==
    IF c.pc \in {"idle", "done"} THEN 0
    ELSE 2 * (max_retries - c.attempt) + (IF c.pc = "select" THEN 2 ELSE 1)

\* C9: a chat_completion call sends at most max_retries requests and always ends:
\* every step of it brings it closer to its end and it is never stuck; it ends
\* with the first successful response or, after failures only, with the last
\* error raised; no backoff delay follows the last attempt.
C9_BoundedRetries ==
    /\ [](/\ call.outbound <= max_retries
          /\ call.sleeps <= call.outbound
          /\ call.pc \in {"select", "request"} =>
                /\ call.attempt < max_retries
                /\ ENABLED (SelectKey \/ RequestSucceeds \/ RequestFails)
          /\ call.pc = "done" =>
                /\ call.outbound >= 1
                /\ call.sleeps = call.outbound - 1
                /\ \/ call.result = "response" /\ call.raised = NoError
                   \/ /\ call.result = "raise"
                      /\ call.raised = call.last_error
                      /\ call.raised \in RequestErrors)
    /\ [][ /\ (call.pc \in {"select", "request"} /\ call' # call)
                => Remaining(call') < Remaining(call)
           /\ (call.pc = "request" /\ call'.result = "response")
                => call'.pc = "done" /\ call'.outbound = call.outbound + 1 ]_vars

\* C9 witness: a call that failed in all max_retries attempts and raised the last error.
C9_Witness ==
    /\ call.pc = "done"
    /\ call.outbound = max_retries
    /\ call.result = "raise"
    /\ call.sleeps = max_retries - 1

\* C10: a payment required report on a key never moves the expiry of its cooldown
\* back: the expiry becomes one hour from now, no earlier than the one in effect.
C10_PaymentRequiredExtends ==
    [][ (RequestFailed /\ Classify(call'.last_error) = "payment_required") =>
            /\ key_cooldowns'[call.api_key] >= now + COOLDOWN_CREDITS
            /\ key_cooldowns'[call.api_key] >= key_cooldowns[call.api_key] ]_vars

\* C10 witness: payment required was reported on a key that was cooling down as rate
\* limited, and its cooldown now lasts the hour.
C10_Witness ==
    /\ call.pc = "done"
    /\ Classify(call.last_error) = "payment_required"
    /\ key_usage_stats[call.api_key].rate_limited
    /\ key_cooldowns[call.api_key] = now + COOLDOWN_CREDITS

\* C16: whenever the selection of an attempt finds every key unavailable (flagged
\* exhausted or rate limited, or in an unexpired cooldown), that selection emits the
\* critical all-keys-exhausted signal of _notify_all_keys_exhausted.
C16_ExhaustionIsSignalled ==
    (call.pc = "select" /\ \A k \in KeySet : KeyUnavailable(k)) =>
        GetNextAvailableKey(ManagerState).critical

\* C22: a key whose credits_exhausted or rate_limited flag is set has an entry in
\* key_cooldowns, in every state that calls of chat_completion and reset_key_status
\* reach: no flag is left without the expiry that clears it.
C22_FlaggedKeyHasCooldown ==
    \A k \in KeySet :
        (key_usage_stats[k].credits_exhausted \/ key_usage_stats[k].rate_limited)
            => key_cooldowns[k] # NoTime

\* C22 witness: a call has ended on a key that carries both flags, and the entry of
\* that key was written again by the generic failure reported last.
C22_Witness ==
    /\ call.pc = "done"
    /\ Classify(call.last_error) = "other"
    /\ key_usage_stats[call.api_key].credits_exhausted
    /\ key_usage_stats[call.api_key].rate_limited
    /\ key_cooldowns[call.api_key] = now + COOLDOWN_OTHER

\* A step in which _handle_api_error ran for key k: it alone counts an error.
IsReportOn(k) == key_usage_stats'[k].errors = key_usage_stats[k].errors + 1

\* C23: no failure report shortens an exclusion in effect: after _handle_api_error
\* on a key that is cooling down, the expiry of its cooldown is no earlier than it
\* was, so a key that reported payment required stays excluded for the full hour.
C23_ReportNeverShortens ==
    [][ \A k \in KeySet :
            (IsReportOn(k) /\ KeyInCooldown(k)) =>
                key_cooldowns'[k] >= key_cooldowns[k] ]_vars

(***************************************************************************)
(* Properties of both managers                                             *)
(***************************************************************************)
\* A step that is a call of get_api_status_report.
IsReportStep == lastCall'.op = "get_api_status_report" /\ now' = now

\* C18: get_api_status_report and get_api_status leave the state of their manager
\* as it was: the endpoints with their status, counters and rate limit expiries, the
\* cursors and health check times, the per-key flags and counters and the cooldown
\* table, expired entries included.
C18_SnapshotsChangeNothing ==
    [][ (IsReportStep \/ get_api_status) =>
            UNCHANGED <<apis, current_api_index, last_health_check,
                        current_key_index, key_usage_stats, key_cooldowns>> ]_vars

\* C18 witness: get_api_status_report has run while an endpoint was RATE_LIMITED
\* with its rate_limit_reset in the past, and the endpoint is RATE_LIMITED still.
C18_Witness ==
    /\ lastCall.op = "get_api_status_report"
    /\ \E i \in 1..Len(apis["qwen"]) : RateLimitExpired(apis["qwen"][i], now)
    /\ lastCall.report["qwen"].rate_limited >= 1

\* C19: in the status get_api_status returns, a key is available exactly when the
\* selection would accept it now (no unexpired cooldown, no exhausted or rate limited
\* flag in effect), and health_status is healthy exactly when some key is available.
C19_AvailableMeansSelectable ==
    call.pc \in {"idle", "done"} =>
        LET status == ApiStatus(ManagerState)
        IN  /\ \A i \in 1..NumKeys :
                  status.keys_status[i].available <=> ~KeyUnavailable(api_keys[i])
            /\ status.summary.health_status = "healthy" <=>
                  \E i \in 1..NumKeys : ~KeyUnavailable(api_keys[i])
            /\ status.summary.health_status \in {"healthy", "degraded"}

\* C20: the cursor of every pool is an index of the pool, 0 for an empty pool, and
\* current_key_index is an index of api_keys.
C20_CursorsAreValid ==
    /\ \A s \in DOMAIN apis :
          IF apis[s] = <<>> THEN current_api_index[s] = 0
          ELSE current_api_index[s] \in 0..(Len(apis[s]) - 1)
    /\ current_key_index \in 0..(NumKeys - 1)

\* C20 witness: the key cursor has gone round the pool: it is back on the first key
\* after requests with the last one.
C20_Witness ==
    /\ current_key_index = 0
    /\ key_usage_stats[api_keys[NumKeys]].requests > 0
    /\ call.pc = "done"
    /\ call.result = "response"

====
